---------------------------- MODULE Spec2Model ----------------------------
(***************************************************************************)
(* A model of post_generator.py: the hashtag parser parse_hashtags, the    *)
(* budget-limited appender add_hashtags and the driver main.               *)
(*                                                                         *)
(* A Python str is a sequence of one-character strings.  A Python set is   *)
(* a TLA+ set.  A call that raises is recorded by the name of the          *)
(* exception it raises.                                                    *)
(***************************************************************************)
EXTENDS Integers, Sequences, FiniteSets, TLC

----------------------------------------------------------------------------
(* Bounds of the model.                                                    *)

\* longest string handed to parse_hashtags in SpecParse
MaxStrLen == 4
\* longest text handed to add_hashtags in SpecAdd
MaxTextLen == 4
\* largest limit handed to add_hashtags in SpecAdd
MaxLim == 9
\* main: the story lengths range over POST_LEN_LIMIT - MaxSlack .. POST_LEN_LIMIT + 1
MaxSlack == 6
\* main: longest themes argument
MaxThemesLen == 2
\* main: longest generated hashtag string
MaxHtagsLen == 3

----------------------------------------------------------------------------
(* Program constants.                                                      *)

POST_LEN_LIMIT == 200
\* the literal of `assert len(story) < 200`
STORY_ASSERT_LIMIT == 200

----------------------------------------------------------------------------
(* Strings.                                                                *)

\* the characters str.split() and str.strip() treat as whitespace
Whitespace == {" ", "\t", "\n"}

SeqsUpTo(A, n) == UNION {[1..k -> A] : k \in 0..n}

\* str.startswith(prefix)
StartsWith(s, prefix) ==
    /\ Len(s) >= Len(prefix)
    /\ SubSeq(s, 1, Len(prefix)) = prefix

\* a variant of removeprefix that drops every leading occurrence of the
\* prefix, as str.lstrip('#') would
RECURSIVE RemovePrefixAll(_, _)
RemovePrefixAll(s, prefix) ==
    IF prefix # <<>> /\ StartsWith(s, prefix)
    THEN RemovePrefixAll(SubSeq(s, Len(prefix) + 1, Len(s)), prefix)
    ELSE s

\* str.removeprefix(prefix): drops ONE occurrence of the prefix
RemovePrefix(s, prefix) ==
    IF StartsWith(s, prefix) THEN SubSeq(s, Len(prefix) + 1, Len(s)) ELSE s

\* str.strip(): drops leading and trailing whitespace
Strip(s) ==
    LET nonws == {i \in 1..Len(s) : s[i] \notin Whitespace}
        Min(S) == CHOOSE x \in S : \A y \in S : x <= y
        Max(S) == CHOOSE x \in S : \A y \in S : x >= y
    IN  IF nonws = {} THEN <<>> ELSE SubSeq(s, Min(nonws), Max(nonws))

\* str.replace(old, new) for a one-character old: every occurrence of old
\* becomes new, everything else is kept in place (computed by halves)
RECURSIVE Replace(_, _, _)
Replace(s, old, new) ==
    IF Len(s) = 0 THEN <<>>
    ELSE IF Len(s) = 1 THEN (IF s[1] = old THEN new ELSE s)
    ELSE LET m == Len(s) \div 2
         IN  Replace(SubSeq(s, 1, m), old, new)
                \o Replace(SubSeq(s, m + 1, Len(s)), old, new)

\* str.split(sep) for a one-character sep: every separator cuts, empty
\* pieces are kept, the result of splitting "" is [""]
RECURSIVE SplitSepFrom(_, _, _, _)
SplitSepFrom(s, sep, i, cur) ==
    IF i > Len(s) THEN <<cur>>
    ELSE IF s[i] = sep THEN <<cur>> \o SplitSepFrom(s, sep, i + 1, <<>>)
    ELSE SplitSepFrom(s, sep, i + 1, Append(cur, s[i]))

SplitSep(s, sep) == SplitSepFrom(s, sep, 1, <<>>)

\* str.split(): runs of whitespace cut, empty pieces are dropped
RECURSIVE SplitFrom(_, _, _)
SplitFrom(s, i, cur) ==
    IF i > Len(s) THEN (IF cur = <<>> THEN <<>> ELSE <<cur>>)
    ELSE IF s[i] \in Whitespace
         THEN (IF cur = <<>> THEN <<>> ELSE <<cur>>) \o SplitFrom(s, i + 1, <<>>)
         ELSE SplitFrom(s, i + 1, Append(cur, s[i]))

Split(s) == SplitFrom(s, 1, <<>>)

Range(f) == {f[i] : i \in DOMAIN f}

----------------------------------------------------------------------------
(* parse_hashtags                                                          *)

Returned(v) == [raised |-> "none", value |-> v]
Raised(e) == [raised |-> e, value |-> {}]

\* a variant of the 'comma' branch that strips each piece instead of
\* removing its spaces
ParseCommaStrip(string) ==
    {<<"#">> \o Strip(v) : v \in Range(SplitSep(string, ","))}

\* {'#' + v.replace(' ', '') for v in string.split(',')}
ParseComma(string) ==
    {<<"#">> \o Replace(v, " ", <<>>) : v \in Range(SplitSep(string, ","))}

\* {'#' + v.strip().removeprefix('#') for v in string.split()}
ParseSpace(string) ==
    {<<"#">> \o RemovePrefix(Strip(v), <<"#">>) : v \in Range(Split(string))}

\* a variant of the 'hash' branch that keeps the tokens containing '#'
\* anywhere
ParseHashContains(string) ==
    {Strip(v) : v \in {w \in Range(Split(string)) : "#" \in Range(w)}}

\* {v.strip() for v in string.split() if v.startswith('#')}
ParseHash(string) ==
    {Strip(v) : v \in {w \in Range(Split(string)) : StartsWith(w, <<"#">>)}}

\* stringType is the Python type of the argument `string`
parse_hashtags(stringType, string, format) ==
    IF stringType # "str" THEN Raised("TypeError")
    ELSE IF string = <<>> THEN Returned({})
    ELSE IF format = "comma" THEN Returned(ParseComma(string))
    ELSE IF format = "space" THEN Returned(ParseSpace(string))
    ELSE IF format = "hash" THEN Returned(ParseHash(string))
    ELSE Raised("ValueError")

----------------------------------------------------------------------------
(* add_hashtags                                                            *)

\* variants of the test: without the separating space, and with <=
FitsNoSpace(t, h, l) == Len(t) + Len(h) < l
FitsOrEqual(t, h, l) == Len(t) + Len(h) + 1 <= l

\* the test of the loop body: len(text) + len(ht) + 1 < lim
Fits(t, h, l) == Len(t) + Len(h) + 1 < l

\* text + ' ' + ht
Extend(t, h) == t \o <<" ">> \o h

\* a variant of pop() that hands out an element and leaves it in the set
PopKeep(S, h) == S

\* what hashtags.pop() leaves in the set when it hands out h
Pop(S, h) == S \ {h}

----------------------------------------------------------------------------
(* main                                                                    *)

\* the assert statement compiled away
StoryAssertOff(s) == TRUE

\* assert len(story) < 200
StoryAssert(s) == Len(s) < STORY_ASSERT_LIMIT

\* the row handed to writer.writerow
Row(th, st, post) == [Theme |-> th, Style |-> st, Post |-> post]

\* the module's last statement calls main() and drops what it returns: the
\* interpreter ends with status 0 whenever main returns
ExitStatus(returned) == 0

----------------------------------------------------------------------------
VARIABLES
    \* a call of parse_hashtags: its arguments, its outcome, its position
    stringType, string, format, parsed, ppc,
    \* a call of add_hashtags: the types of its arguments, its arguments
    \* (hashtags is the caller's set object, which pop() changes in place),
    \* its local ht, the exception it raised, its position
    textType, hashtagsType, text, hashtags, lim, ht, addRaised, pc,
    \* history of the call: the arguments on entry, the number of loop
    \* iterations begun, the hashtags popped and those appended, in order
    text0, hashtags0, iters, popped, appended,
    \* a run of main: its position, args.themes, args.style, the locals
    \* story and base_ht, the rows of the csv file, the messages printed,
    \* the value main returned, the status of the process
    mpc, themes, style, story, base_ht, csv, printed, returned, exitStatus

parseVars == <<stringType, string, format, parsed, ppc>>
addVars == <<textType, hashtagsType, text, hashtags, lim, ht, addRaised, pc>>
histVars == <<text0, hashtags0, iters, popped, appended>>
mainVars == <<mpc, themes, style, story, base_ht, csv, printed, returned, exitStatus>>
vars == <<parseVars, addVars, histVars, mainVars>>

ParseIdle ==
    /\ stringType = "str" /\ string = <<>> /\ format = "comma"
    /\ parsed = Returned({}) /\ ppc = "idle"

AddIdle ==
    /\ textType = "str" /\ hashtagsType = "set" /\ text = <<>> /\ hashtags = {}
    /\ lim = 0 /\ ht = <<>> /\ addRaised = "none" /\ pc = "idle"
    /\ text0 = <<>> /\ hashtags0 = {} /\ iters = 0
    /\ popped = <<>> /\ appended = <<>>

MainIdle ==
    /\ mpc = "idle" /\ themes = <<>> /\ style = <<>> /\ story = <<>>
    /\ base_ht = {} /\ csv = <<>> /\ printed = <<>> /\ returned = "unset"
    /\ exitStatus = -1

----------------------------------------------------------------------------
(* SpecParse: parse_hashtags applied to every string and format.           *)

Alphabet == {"#", "a", " ", "\t", ","}
Strings == SeqsUpTo(Alphabet, MaxStrLen)
Formats == {"comma", "space", "hash", "semicolon", "bogus"}

InitParse ==
    /\ \/ stringType = "str" /\ string \in Strings
       \/ stringType = "int" /\ string = <<>>
    /\ format \in Formats
    /\ parsed = Returned({})
    /\ ppc = "call"
    /\ AddIdle
    /\ MainIdle

ParseCall ==
    /\ ppc = "call"
    /\ parsed' = parse_hashtags(stringType, string, format)
    /\ ppc' = "done"
    /\ UNCHANGED <<stringType, string, format, addVars, histVars, mainVars>>

NextParse == ParseCall

SpecParse == InitParse /\ [][NextParse]_vars

----------------------------------------------------------------------------
(* SpecAdd: add_hashtags applied to every text, set and limit.             *)

\* the type checks at the head of add_hashtags
AddEnter ==
    /\ pc = "enter"
    /\ IF textType # "str" \/ hashtagsType # "set"
       THEN addRaised' = "TypeError" /\ pc' = "raised"
       ELSE addRaised' = "none" /\ pc' = "loop"
    /\ UNCHANGED <<textType, hashtagsType, text, hashtags, lim, ht>>
    /\ UNCHANGED <<parseVars, histVars, mainVars>>

\* one iteration of `while hashtags:`, whose pop() hands out any element
AddIter ==
    /\ pc = "loop"
    /\ hashtags # {}
    /\ \E h \in hashtags :
        /\ ht' = h
        /\ hashtags' = Pop(hashtags, h)
        /\ popped' = Append(popped, h)
        /\ IF Fits(text, h, lim)
           THEN /\ text' = Extend(text, h)
                /\ appended' = Append(appended, h)
                /\ pc' = "loop"
           ELSE /\ UNCHANGED <<text, appended>>
                /\ pc' = "done"
    /\ iters' = iters + 1
    /\ UNCHANGED <<textType, hashtagsType, lim, addRaised, text0, hashtags0>>
    /\ UNCHANGED <<parseVars, mainVars>>

\* `while hashtags:` finds the set empty; `return text`
AddExit ==
    /\ pc = "loop"
    /\ hashtags = {}
    /\ pc' = "done"
    /\ UNCHANGED <<textType, hashtagsType, text, hashtags, lim, ht, addRaised>>
    /\ UNCHANGED <<parseVars, histVars, mainVars>>

Texts == SeqsUpTo({"x", " "}, MaxTextLen)
TagPool == {<<>>, <<"#", "a">>, <<"#", "b">>, <<"#", "c", "c">>, <<"#", "d", "d", "d">>}

InitAdd ==
    /\ \/ textType = "str" /\ text \in Texts
       \/ textType = "int" /\ text = <<>>
    /\ hashtagsType \in {"set", "list"}
    /\ hashtags \in SUBSET TagPool
    /\ lim \in 0..MaxLim
    /\ ht = <<>> /\ addRaised = "none" /\ pc = "enter"
    /\ text0 = text /\ hashtags0 = hashtags /\ iters = 0
    /\ popped = <<>> /\ appended = <<>>
    /\ ParseIdle
    /\ MainIdle

NextAdd == AddEnter \/ AddIter \/ AddExit

SpecAdd == InitAdd /\ [][NextAdd]_vars

\* the interpreter runs the loop on: a call that can take a step takes it
SpecAddFair == SpecAdd /\ WF_vars(NextAdd)

----------------------------------------------------------------------------
(* SpecMain: a run of the program.                                         *)

ThemeStrings == SeqsUpTo({"a", ","}, MaxThemesLen)
HtagStrings == SeqsUpTo({"#", "b", " "}, MaxHtagsLen)
Story(n) == [i \in 1..n |-> IF i % 50 = 0 THEN "\n" ELSE "x"]
Stories == {Story(n) : n \in (POST_LEN_LIMIT - MaxSlack)..(POST_LEN_LIMIT + 1)}

InitMain ==
    /\ mpc = "init"
    /\ themes \in ThemeStrings
    /\ style = <<"s">>
    /\ story = <<>> /\ base_ht = {} /\ csv = <<>> /\ printed = <<>>
    /\ returned = "unset" /\ exitStatus = -1
    /\ ParseIdle
    /\ AddIdle

\* `return 1` after printing msg
Fail(msg) ==
    /\ printed' = Append(printed, msg)
    /\ returned' = "1"
    /\ mpc' = "returned"

\* gai21.text_pipeline_init(MODEL_NAME) returns or raises
MainInitModel ==
    /\ mpc = "init"
    /\ \/ /\ mpc' = "parse_base"
          /\ UNCHANGED <<printed, returned>>
       \/ Fail("init")
    /\ UNCHANGED <<themes, style, story, base_ht, csv, exitStatus>>
    /\ UNCHANGED <<parseVars, addVars, histVars>>

\* base_ht = parse_hashtags(args.themes, 'comma'), {} if it raises
MainParseBase ==
    /\ mpc = "parse_base"
    /\ LET r == parse_hashtags("str", themes, "comma")
       IN  IF r.raised = "none"
           THEN base_ht' = r.value /\ printed' = Append(printed, "base_ht")
           ELSE base_ht' = {} /\ printed' = Append(printed, "parse")
    /\ mpc' = "gen_story"
    /\ UNCHANGED <<themes, style, story, csv, returned, exitStatus>>
    /\ UNCHANGED <<parseVars, addVars, histVars>>

\* story = gai17.generate_text(...) returns or raises; assert len(story) < 200
MainGenStory ==
    /\ mpc = "gen_story"
    /\ \/ /\ Fail("generate")
          /\ UNCHANGED story
       \/ \E s \in Stories :
            IF StoryAssert(s)
            THEN /\ story' = s
                 /\ mpc' = "gen_htags"
                 /\ UNCHANGED <<printed, returned>>
            ELSE /\ story' = s
                 /\ Fail("generate")
    /\ UNCHANGED <<themes, style, base_ht, csv, exitStatus>>
    /\ UNCHANGED <<parseVars, addVars, histVars>>

\* htags = gai17.generate_text(...) returns or raises;
\* htags_set = base_ht | parse_hashtags(htags, 'hash');
\* story = story.replace('\n', ' '); add_hashtags(story, htags_set, POST_LEN_LIMIT)
\* is entered
MainGenHtags ==
    /\ mpc = "gen_htags"
    /\ \/ /\ Fail("generate")
          /\ UNCHANGED <<story, addVars, histVars>>
       \/ \E htags \in HtagStrings :
            LET r == parse_hashtags("str", htags, "hash")
                htags_set == base_ht \cup r.value
                flat == Replace(story, "\n", <<" ">>)
            IN  /\ story' = flat
                /\ textType' = "str" /\ hashtagsType' = "set"
                /\ text' = flat /\ hashtags' = htags_set
                /\ lim' = POST_LEN_LIMIT
                /\ ht' = <<>> /\ addRaised' = "none" /\ pc' = "enter"
                /\ text0' = flat /\ hashtags0' = htags_set /\ iters' = 0
                /\ popped' = <<>> /\ appended' = <<>>
                /\ mpc' = "in_add"
                /\ UNCHANGED <<printed, returned>>
    /\ UNCHANGED <<themes, style, base_ht, csv, exitStatus>>
    /\ UNCHANGED parseVars

\* add_hashtags returns (or raises) into main: story = add_hashtags(...)
MainAfterAdd ==
    /\ mpc = "in_add"
    /\ pc \in {"done", "raised"}
    /\ IF pc = "done"
       THEN /\ story' = text
            /\ mpc' = "write"
            /\ UNCHANGED <<printed, returned>>
       ELSE /\ Fail("generate")
            /\ UNCHANGED story
    /\ UNCHANGED <<themes, style, base_ht, csv, exitStatus>>
    /\ UNCHANGED <<parseVars, addVars, histVars>>

\* the third try block: the row is appended, or open/writerow raises and the
\* message is printed; main then falls off its end and returns None
MainWrite ==
    /\ mpc = "write"
    /\ \/ /\ csv' = Append(csv, Row(themes, style, story))
          /\ UNCHANGED printed
       \/ /\ printed' = Append(printed, "file")
          /\ UNCHANGED csv
    /\ returned' = "None"
    /\ mpc' = "returned"
    /\ UNCHANGED <<themes, style, story, base_ht, exitStatus>>
    /\ UNCHANGED <<parseVars, addVars, histVars>>

\* if __name__ == '__main__': main()
MainExit ==
    /\ mpc = "returned"
    /\ exitStatus' = ExitStatus(returned)
    /\ mpc' = "exited"
    /\ UNCHANGED <<themes, style, story, base_ht, csv, printed, returned>>
    /\ UNCHANGED <<parseVars, addVars, histVars>>

NextMain ==
    \/ MainInitModel \/ MainParseBase \/ MainGenStory \/ MainGenHtags
    \/ AddEnter \/ AddIter \/ AddExit
    \/ MainAfterAdd \/ MainWrite \/ MainExit

SpecMain == InitMain /\ [][NextMain]_vars

----------------------------------------------------------------------------
(* Vocabulary of the properties, stated without the operators of the model *)

\* the whitespace-separated tokens of s: its maximal whitespace-free substrings
Tokens(s) ==
    {SubSeq(s, i, j) : <<i, j>> \in
        {ij \in (1..Len(s)) \X (1..Len(s)) :
            /\ ij[1] <= ij[2]
            /\ \A k \in ij[1]..ij[2] : s[k] \notin Whitespace
            /\ ij[1] = 1 \/ s[ij[1] - 1] \in Whitespace
            /\ ij[2] = Len(s) \/ s[ij[2] + 1] \in Whitespace}}

\* the pieces of s between its commas, the empty ones included
Pieces(s) ==
    {SubSeq(s, i, j) : <<i, j>> \in
        {ij \in (1..Len(s) + 1) \X (0..Len(s)) :
            /\ ij[2] >= ij[1] - 1
            /\ \A k \in ij[1]..ij[2] : s[k] # ","
            /\ ij[1] = 1 \/ s[ij[1] - 1] = ","
            /\ ij[2] = Len(s) \/ s[ij[2] + 1] = ","}}

Without(s, chars) == SelectSeq(s, LAMBDA c : c \notin chars)

\* the number of '#' characters s starts with
LeadingHashes(s) == Cardinality({i \in 1..Len(s) : \A j \in 1..i : s[j] = "#"})

\* s after its leading '#' characters
Body(s) == SubSeq(s, LeadingHashes(s) + 1, Len(s))

Max2(a, b) == IF a >= b THEN a ELSE b

NoDuplicates(q) == \A i, j \in 1..Len(q) : q[i] = q[j] => i = j

ParsedAs(f) == ppc = "done" /\ stringType = "str" /\ format = f

Failed(msg) == \E i \in 1..Len(printed) : printed[i] = msg

----------------------------------------------------------------------------
(* C1 *)

\* C1 as stated: whatever the text, the set and the limit, add_hashtags
\* returns a string strictly shorter than lim.
C1_AlwaysBelowLimit == pc = "done" => Len(text) < lim

\* C1, amended: when len(text) < lim on entry the string add_hashtags
\* returns is strictly shorter than lim; when len(text) >= lim on entry
\* nothing is appended and the text is returned as it came.
C1_BelowLimitWhenEnteredBelow ==
    pc = "done" =>
        IF Len(text0) < lim THEN Len(text) < lim ELSE text = text0

\* a call entered below the limit that appended a hashtag and returned
C1_Witness ==
    pc = "done" /\ Len(text0) < lim /\ appended # <<>> /\ Len(text) > Len(text0)

----------------------------------------------------------------------------
(* C2 *)

\* C2 as stated: when add_hashtags has returned, the caller's hashtag set
\* is empty, also when the loop stopped at a hashtag that did not fit.
C2_SetEmptyOnReturn == pc = "done" => hashtags = {}

----------------------------------------------------------------------------
(* C3 *)

\* C3 as stated: parse_hashtags with a format other than 'comma', 'space',
\* 'hash' raises ValueError for every string, the empty one included.
C3_UnsupportedFormatRaises ==
    (ppc = "done" /\ stringType = "str" /\ format \notin {"comma", "space", "hash"})
        => parsed.raised = "ValueError"

----------------------------------------------------------------------------
(* C4 *)

\* C4 as stated: every element of parse_hashtags(s, 'space') starts with
\* exactly one '#', whatever the number of leading '#' of its token.
C4_ExactlyOneHash ==
    ParsedAs("space") => \A e \in parsed.value : LeadingHashes(e) = 1

\* C4, amended: every element of parse_hashtags(s, 'space') starts with
\* '#'; the elements are the tokens of s, each with max(1, k) leading '#'
\* where k is the number of leading '#' of the token: exactly one for a
\* token with none or one, k for a token with several.
C4_OneHashRemovedOneAdded ==
    ParsedAs("space") =>
        /\ parsed.raised = "none"
        /\ \A e \in parsed.value :
            /\ LeadingHashes(e) >= 1
            /\ \E t \in Tokens(string) :
                /\ LeadingHashes(e) = Max2(1, LeadingHashes(t))
                /\ Body(e) = Body(t)
        /\ \A t \in Tokens(string) : \E e \in parsed.value :
                /\ LeadingHashes(e) = Max2(1, LeadingHashes(t))
                /\ Body(e) = Body(t)

\* a string with a token without '#' and a token with several was parsed
C4_Witness ==
    /\ ParsedAs("space")
    /\ \E t \in Tokens(string) : LeadingHashes(t) = 0
    /\ \E t \in Tokens(string) : LeadingHashes(t) >= 2
    /\ Cardinality(parsed.value) >= 2

----------------------------------------------------------------------------
(* C5 *)

\* C5 as stated: parse_hashtags(s, 'comma') is the set of '#' + p' for the
\* pieces p of s between commas, p' being p without any whitespace
\* character (spaces, tabs, line breaks), for every string s.
C5_AllWhitespaceRemoved ==
    ParsedAs("comma") =>
        /\ parsed.raised = "none"
        /\ parsed.value = {<<"#">> \o Without(p, Whitespace) : p \in Pieces(string)}

\* C5, amended: for every non-empty string s, parse_hashtags(s, 'comma') is
\* the set of '#' + p' for the pieces p of s between commas, p' being p
\* without its space characters ' ' (tabs and line breaks stay); a piece
\* starting with '#' yields an element starting with '##'.  For the empty
\* string the result is the empty set.
C5_SpacesRemoved ==
    ParsedAs("comma") =>
        /\ parsed.raised = "none"
        /\ parsed.value =
            IF string = <<>> THEN {}
            ELSE {<<"#">> \o Without(p, {" "}) : p \in Pieces(string)}
        /\ \A p \in Pieces(string) :
            (string # <<>> /\ LeadingHashes(p) >= 1)
                => \E e \in parsed.value : LeadingHashes(e) >= 2

\* a string with a comma, a space, a tab and a piece starting with '#'
C5_Witness ==
    /\ ParsedAs("comma")
    /\ Cardinality(Pieces(string)) >= 2
    /\ " " \in Range(string)
    /\ \E e \in parsed.value : "\t" \in Range(e)
    /\ \E e \in parsed.value : LeadingHashes(e) >= 2

----------------------------------------------------------------------------
(* C6 *)

\* C6: parse_hashtags(s, 'hash') is the set of the whitespace-separated
\* tokens of s that start with '#', each unchanged.
C6_HashTokensOnly ==
    ParsedAs("hash") =>
        /\ parsed.raised = "none"
        /\ parsed.value = {t \in Tokens(string) : t[1] = "#"}

\* a string with a token that starts with '#' and one that does not
C6_Witness ==
    /\ ParsedAs("hash")
    /\ \E t \in Tokens(string) : t[1] = "#"
    /\ \E t \in Tokens(string) : t[1] # "#"
    /\ parsed.value # {}

----------------------------------------------------------------------------
(* C7 *)

\* C7 as stated: a run whose model initialization or generation/preparation
\* failed ends with a non-zero status and appends no row; a run whose file
\* write failed ends with the status of a successful run.
C7_FailureStatusNonZero ==
    mpc = "exited" =>
        /\ (Failed("init") \/ Failed("generate")) => (exitStatus # 0 /\ csv = <<>>)
        /\ Failed("file") => exitStatus = 0

----------------------------------------------------------------------------
(* C8 *)

\* a step that pops a hashtag either finds that it fits and appends a space
\* and the hashtag, or finds that it does not fit and leaves the text alone
C8_AppendStep ==
    popped' # popped =>
        \/ /\ Len(text) + Len(ht') + 1 < lim
           /\ text' = text \o <<" ">> \o ht'
        \/ /\ ~(Len(text) + Len(ht') + 1 < lim)
           /\ text' = text

\* C8: a popped hashtag is appended, as a space and the hashtag, exactly
\* when len(text) + len(ht) + 1 < lim; a call entered with len(text) < lim
\* keeps len(text) < lim after every append; the text on entry stays a
\* prefix of the text.
C8_AppendedIffStrictlyFits ==
    /\ [][C8_AppendStep]_vars
    /\ [](/\ Len(text0) < lim => Len(text) < lim
          /\ Len(text) >= Len(text0)
          /\ SubSeq(text, 1, Len(text0)) = text0)

\* a call that appended and returned a text of length lim - 1
C8_Witness == pc = "done" /\ appended # <<>> /\ Len(text) = lim - 1

----------------------------------------------------------------------------
(* C9 *)

\* the loop is one pass over the set that ends at the first misfit
C9_OnePass ==
    /\ iters <= Cardinality(hashtags0)
    /\ iters = Len(popped)
    /\ NoDuplicates(popped)
    /\ NoDuplicates(appended)
    /\ Range(popped) \subseteq hashtags0
    /\ hashtags = hashtags0 \ Range(popped)
    \* every popped hashtag but the last was appended, and a last one that
    \* was not appended ended the loop
    /\ \A i \in 1..Len(appended) : appended[i] = popped[i]
    /\ Len(appended) \in {Len(popped), Len(popped) - 1}
    /\ Len(appended) < Len(popped) => pc = "done"

\* C9: the loop of add_hashtags ends, after at most |hashtags| iterations;
\* each hashtag is popped at most once, none is appended twice, and none
\* is popped or appended after the first that does not fit.
C9_LoopTerminatesInOnePass ==
    /\ <>(pc \in {"done", "raised"})
    /\ []C9_OnePass

\* the loop stopped at a hashtag that did not fit while one that would fit
\* was left in the set
C9_Witness ==
    /\ pc = "done"
    /\ Len(appended) < Len(popped)
    /\ appended # <<>>
    /\ \E h \in hashtags : Len(text) + Len(h) + 1 < lim

----------------------------------------------------------------------------
(* C10 *)

\* C10: the Post field of every row main writes is strictly shorter than
\* POST_LEN_LIMIT; a story of length 200 or more never reaches add_hashtags
\* nor the file write.
C10_PostBelowLimit ==
    /\ \A i \in 1..Len(csv) : Len(csv[i].Post) < POST_LEN_LIMIT
    /\ mpc \in {"gen_htags", "in_add", "write"} => Len(story) < POST_LEN_LIMIT
    /\ Len(story) >= POST_LEN_LIMIT => (pc = "idle" /\ csv = <<>>)

\* a row whose Post is the story with hashtags appended, 199 characters long
C10_Witness ==
    /\ Len(csv) = 1
    /\ appended # <<>>
    /\ Len(csv[1].Post) = POST_LEN_LIMIT - 1

=============================================================================
